---- MODULE Spec2Model ----
(***************************************************************************)
(* Model of the four-stage market-research pipeline of agentai.py and of   *)
(* the resource helpers of utils.py.  Texts are TLA+ strings; the helpers  *)
(* below give them the semantics of the Python str operations the code     *)
(* uses (slicing, strip, split, startswith, in).                           *)
(***************************************************************************)
EXTENDS Integers, Sequences, FiniteSets, TLC

(***************************************************************************)
(* Bounds of the model.                                                    *)
(***************************************************************************)
\* how many characters beyond a truncation cap the generated texts reach
MaxOver == 1
\* how many lines the generated use-case texts have at most
MaxLines == 2

(***************************************************************************)
(* Program constants.                                                      *)
(***************************************************************************)
ResearchCap == 500
UseCaseCap == 400
UseCaseResearchCap == 300
ProposalResearchCap == 200
ProposalUseCasesCap == 200
ProposalResourcesCap == 100
DefaultMaxResults == 2
SecondaryMaxResults == 2
MaxCases == 2
Ellipsis == "..."

\* Python's None, kept apart from every text the model generates
None == "<None>"

(***************************************************************************)
(* Python str operations.                                                  *)
(***************************************************************************)
\* s[:n]
Slice(s, n) == IF n >= Len(s) THEN s ELSE SubSeq(s, 1, n)

\* s.startswith(p)
StartsWith(s, p) == Len(s) >= Len(p) /\ SubSeq(s, 1, Len(p)) = p

\* p in s
Contains(s, p) == \E i \in 1..(Len(s) - Len(p) + 1) : SubSeq(s, i, i + Len(p) - 1) = p

\* the characters str.strip() removes
Whitespace == {" ", "\t", "\n", "\r", "\f"}

\* the first (last) index in lo..hi at which s has a character outside the
\* set chars, 0 when there is none; halving keeps the evaluation shallow on
\* long texts
RECURSIVE FirstNotIn(_, _, _, _)
FirstNotIn(s, chars, lo, hi) ==
  IF lo > hi THEN 0
  ELSE IF lo = hi THEN (IF SubSeq(s, lo, lo) \notin chars THEN lo ELSE 0)
  ELSE LET mid == (lo + hi) \div 2
           left == FirstNotIn(s, chars, lo, mid)
       IN  IF left # 0 THEN left ELSE FirstNotIn(s, chars, mid + 1, hi)

RECURSIVE LastNotIn(_, _, _, _)
LastNotIn(s, chars, lo, hi) ==
  IF lo > hi THEN 0
  ELSE IF lo = hi THEN (IF SubSeq(s, lo, lo) \notin chars THEN lo ELSE 0)
  ELSE LET mid == (lo + hi) \div 2
           right == LastNotIn(s, chars, mid + 1, hi)
       IN  IF right # 0 THEN right ELSE LastNotIn(s, chars, lo, mid)

\* s.strip(): from the first to the last character that is not whitespace
Strip(s) ==
  LET first == FirstNotIn(s, Whitespace, 1, Len(s))
  IN  IF first = 0 THEN ""
      ELSE SubSeq(s, first, LastNotIn(s, Whitespace, 1, Len(s)))

\* the numbers of the set S in ascending order
RECURSIVE Ascending(_)
Ascending(S) ==
  IF S = {} THEN <<>>
  ELSE LET least == CHOOSE x \in S : \A y \in S : x <= y
       IN  <<least>> \o Ascending(S \ {least})

\* s.split('\n'): the pieces between consecutive newlines
Split(s) ==
  LET at == Ascending({i \in 1..Len(s) : SubSeq(s, i, i) = "\n"})
      n == Len(at)
  IN  [j \in 1..(n + 1) |->
         LET from == IF j = 1 THEN 1 ELSE at[j - 1] + 1
             to == IF j = n + 1 THEN Len(s) ELSE at[j] - 1
         IN  IF from > to THEN "" ELSE SubSeq(s, from, to)]

\* str(v) as an f-string renders it
Str(v) == IF v = None THEN "None" ELSE v

\* n copies of the text s
RECURSIVE Repeat(_, _)
Repeat(s, n) ==
  IF n <= 0 THEN ""
  ELSE LET half == Repeat(s, n \div 2)
       IN  half \o half \o (IF n % 2 = 1 THEN s ELSE "")

Last(seq) == seq[Len(seq)]

(***************************************************************************)
(* What the completion service can do in one agent.invoke call: raise, or  *)
(* return a response whose AIMessage contents are ai_messages.             *)
(***************************************************************************)
Raised(msg) == [raised |-> TRUE, err |-> msg, ai_messages |-> <<>>]
Response(contents) == [raised |-> FALSE, err |-> "", ai_messages |-> contents]

(***************************************************************************)
(* agentai.py: the three completion stages as functions of their input and *)
(* of the completion service's behaviour.                                  *)
(***************************************************************************)
ResearchQuery(company_or_industry) ==
  "Research " \o company_or_industry \o " industry overview and key facts"

\* research_agent cutting at the cap without appending the marker
research_agent_NoEllipsis(company_or_industry, response) ==
  IF response.raised THEN "Research error: " \o response.err
  ELSE LET ai_messages == response.ai_messages
       IN  IF ai_messages # <<>> THEN Slice(Last(ai_messages), ResearchCap)
           ELSE "No research results found"

research_agent(company_or_industry, response) ==
  IF response.raised THEN "Research error: " \o response.err
  ELSE LET ai_messages == response.ai_messages
       IN  IF ai_messages # <<>> /\ Len(Last(ai_messages)) > ResearchCap
             THEN Slice(Last(ai_messages), ResearchCap) \o Ellipsis
           ELSE IF ai_messages # <<>> THEN Last(ai_messages)
           ELSE "No research results found"

UseCaseTruncatedResearch(research_data) ==
  IF Len(research_data) > UseCaseResearchCap
    THEN Slice(research_data, UseCaseResearchCap) \o Ellipsis
  ELSE research_data

UseCaseQuery(research_data) ==
  "Based on: " \o UseCaseTruncatedResearch(research_data) \o "\n\nSuggest 2 AI use cases"

use_case_agent(research_data, response) ==
  IF response.raised THEN "Use case error: " \o response.err
  ELSE LET ai_messages == response.ai_messages
       IN  IF ai_messages # <<>> /\ Len(Last(ai_messages)) > UseCaseCap
             THEN Slice(Last(ai_messages), UseCaseCap) \o Ellipsis
           ELSE IF ai_messages # <<>> THEN Last(ai_messages)
           ELSE "No use cases generated"

ProposalTruncatedResearch(research_text) ==
  IF Len(research_text) > ProposalResearchCap
    THEN Slice(research_text, ProposalResearchCap) \o Ellipsis
  ELSE research_text

ProposalTruncatedUseCases(use_cases_text) ==
  IF Len(use_cases_text) > ProposalUseCasesCap
    THEN Slice(use_cases_text, ProposalUseCasesCap) \o Ellipsis
  ELSE use_cases_text

ProposalTruncatedResources(resources_text) ==
  IF Len(resources_text) > ProposalResourcesCap
    THEN Slice(resources_text, ProposalResourcesCap) \o Ellipsis
  ELSE resources_text

ProposalQuery(research_text, use_cases_text, resources_text) ==
  "Research: " \o ProposalTruncatedResearch(research_text)
    \o "\nUse Cases: " \o ProposalTruncatedUseCases(use_cases_text)
    \o "\nResources: " \o ProposalTruncatedResources(resources_text)
    \o "\n\nCreate brief proposal"

proposal_agent(research_text, use_cases_text, resources_text, response) ==
  IF response.raised THEN "Proposal error: " \o response.err
  ELSE LET ai_messages == response.ai_messages
       IN  IF ai_messages # <<>> THEN Last(ai_messages)
           ELSE "No proposal generated"

(***************************************************************************)
(* utils.py: the Kaggle search.  kenv is what the Kaggle side does during  *)
(* one call: credentials is "absent", "auth_fails" or "present",           *)
(* list_raises tells whether api.dataset_list raises, datasets is the list *)
(* it returns otherwise (records with title and ref).                      *)
(***************************************************************************)
setup_kaggle_api(credentials) ==
  IF credentials = "present" THEN "KaggleApi" ELSE None

\* the fallback returning one record fewer than asked for
search_kaggle_fallback_OneShort(query, max_results) ==
  Slice(<< [title |-> query \o " Dataset 1",
            url |-> "https://www.kaggle.com/datasets/example1",
            source |-> "Kaggle (Fallback)",
            description |-> "Example dataset for " \o query
                              \o " - use real Kaggle API for actual results"] >>,
        max_results - 1)

search_kaggle_fallback(query, max_results) ==
  Slice(<< [title |-> query \o " Dataset 1",
            url |-> "https://www.kaggle.com/datasets/example1",
            source |-> "Kaggle (Fallback)",
            description |-> "Example dataset for " \o query
                              \o " - use real Kaggle API for actual results"],
           [title |-> query \o " Dataset 2",
            url |-> "https://www.kaggle.com/datasets/example2",
            source |-> "Kaggle (Fallback)",
            description |-> "Example dataset for " \o query
                              \o " - install kaggle.json for real results"] >>,
        max_results)

\* the search returning no result, instead of the fallback, when the call raises
search_kaggle_datasets_RaiseGivesEmpty(query, max_results, kenv) ==
  IF kenv.credentials # "present" \/ kenv.list_raises THEN <<>>
  ELSE LET datasets == Slice(kenv.datasets, max_results)
       IN  [i \in 1..Len(datasets) |->
              [title |-> datasets[i].title,
               url |-> "https://www.kaggle.com/datasets/" \o datasets[i].ref,
               ref |-> datasets[i].ref,
               source |-> "Kaggle",
               description |-> "Dataset for " \o query]]

search_kaggle_datasets(query, max_results, kenv) ==
  LET api == setup_kaggle_api(kenv.credentials)
  IN  IF api = None THEN search_kaggle_fallback(query, max_results)
      ELSE IF kenv.list_raises THEN search_kaggle_fallback(query, max_results)
      ELSE LET datasets == Slice(kenv.datasets, max_results)
           IN  [i \in 1..Len(datasets) |->
                  [title |-> datasets[i].title,
                   url |-> "https://www.kaggle.com/datasets/" \o datasets[i].ref,
                   ref |-> datasets[i].ref,
                   source |-> "Kaggle",
                   description |-> "Dataset for " \o query]]

(***************************************************************************)
(* utils.py: extraction of the use-case items (the first part of           *)
(* resource_agent_kaggle).                                                 *)
(***************************************************************************)
\* the condition under which a stripped line starts a new item
StartsItem(line) ==
  /\ line # ""
  /\ \/ StartsWith(line, "-")
     \/ StartsWith(line, "*")
     \/ StartsWith(line, "1.")
     \/ StartsWith(line, "2.")
     \/ Contains(line, ":")

\* the for loop over the lines, from line i on, and the final flush
RECURSIVE ExtractLoop(_, _, _, _)
ExtractLoop(lines, i, use_case_list, current_case) ==
  IF i > Len(lines)
    THEN IF current_case # "" THEN Append(use_case_list, Strip(current_case))
         ELSE use_case_list
  ELSE LET line == Strip(lines[i])
       IN  IF StartsItem(line)
             THEN ExtractLoop(lines, i + 1,
                              IF current_case # ""
                                THEN Append(use_case_list, Strip(current_case))
                                ELSE use_case_list,
                              line)
           ELSE IF line # ""
             THEN ExtractLoop(lines, i + 1, use_case_list, current_case \o " " \o line)
           ELSE ExtractLoop(lines, i + 1, use_case_list, current_case)

FallbackCase(company_industry) == "AI applications in " \o company_industry

\* the extraction without the fallback item
ExtractUseCases_NoFallback(use_cases_text, company_industry) ==
  ExtractLoop(Split(use_cases_text), 1, <<>>, "")

ExtractUseCases(use_cases_text, company_industry) ==
  LET parsed == ExtractLoop(Split(use_cases_text), 1, <<>>, "")
  IN  IF parsed = <<>> THEN <<FallbackCase(company_industry)>> ELSE parsed

(***************************************************************************)
(* A Python dict keeps insertion order: a sequence of [key, resources]     *)
(* entries with distinct keys.                                             *)
(***************************************************************************)
Keys(d) == [i \in 1..Len(d) |-> d[i].key]

HasKey(d, k) == \E i \in 1..Len(d) : d[i].key = k

Get(d, k) == d[CHOOSE i \in 1..Len(d) : d[i].key = k].resources

\* d[k] = v
DictSet(d, k, v) ==
  IF HasKey(d, k)
    THEN [i \in 1..Len(d) |-> IF d[i].key = k THEN [key |-> k, resources |-> v] ELSE d[i]]
  ELSE Append(d, [key |-> k, resources |-> v])

NoDatasetRecord ==
  [title |-> "No specific dataset found",
   url |-> "https://www.kaggle.com/datasets",
   source |-> "Kaggle",
   description |-> "Search for relevant datasets on Kaggle"]

KaggleQuery(case, company_industry) == case \o " " \o company_industry

\* only the first extracted case looked up
LookedUp_One(use_case_list) == Slice(use_case_list, 1)

\* the cases resource_agent_kaggle looks up
LookedUp(use_case_list) == Slice(use_case_list, MaxCases)

\* the for loop over use_case_list[:2], from case i on; kenvs[i] is what
\* the Kaggle side does during the i-th search
RECURSIVE KaggleLoop(_, _, _, _, _, _)
KaggleLoop(cases, i, company_industry, max_results, kenvs, resource_map) ==
  IF i > Len(cases) THEN resource_map
  ELSE LET query == KaggleQuery(cases[i], company_industry)
           datasets == search_kaggle_datasets(query, max_results, kenvs[i])
       IN  KaggleLoop(cases, i + 1, company_industry, max_results, kenvs,
                      DictSet(resource_map, cases[i],
                              IF datasets # <<>> THEN datasets
                              ELSE <<NoDatasetRecord>>))

\* resource_agent_kaggle from the extracted list on
LookupCases(use_case_list, company_industry, max_results, kenvs) ==
  KaggleLoop(LookedUp(use_case_list), 1, company_industry, max_results, kenvs, <<>>)

\* the search_kaggle_datasets calls that loop makes, with what they returned
KaggleCalls(use_case_list, company_industry, max_results, kenvs) ==
  LET cases == LookedUp(use_case_list)
  IN  [i \in 1..Len(cases) |->
         [case |-> cases[i],
          query |-> KaggleQuery(cases[i], company_industry),
          max_results |-> max_results,
          credentials |-> kenvs[i].credentials,
          failed |-> kenvs[i].credentials # "present" \/ kenvs[i].list_raises,
          result |-> search_kaggle_datasets(KaggleQuery(cases[i], company_industry),
                                            max_results, kenvs[i])]]

(***************************************************************************)
(* utils.py: the two secondary catalogs.  henv and genv are what the       *)
(* HuggingFace and GitHub sides do during the one request: raises, or the  *)
(* decoded JSON (a list of datasets, the items of the search).             *)
(***************************************************************************)
HuggingFaceUrl(query, max_results) ==
  "https://huggingface.co/api/datasets?search=" \o query
    \o "&limit=" \o ToString(max_results)

search_huggingface_datasets(query, max_results, henv) ==
  IF henv.raises THEN <<>>
  ELSE [i \in 1..Len(henv.datasets) |->
          [title |-> henv.datasets[i].id,
           url |-> "https://huggingface.co/datasets/" \o henv.datasets[i].id,
           source |-> "HuggingFace",
           description |-> Slice(henv.datasets[i].description, 200) \o "...",
           downloads |-> henv.datasets[i].downloads,
           likes |-> henv.datasets[i].likes]]

GitHubUrl(query) ==
  "https://api.github.com/search/repositories?q=" \o query
    \o "+AI+dataset&sort=stars&order=desc"

search_github_repos(query, max_results, genv) ==
  IF genv.raises THEN <<>>
  ELSE LET items == Slice(genv.items, max_results)
       IN  [i \in 1..Len(items) |->
              [title |-> items[i].name,
               url |-> items[i].html_url,
               source |-> "GitHub",
               description |-> items[i].description,
               stars |-> items[i].stargazers_count,
               language |-> items[i].language]]

(***************************************************************************)
(* utils.py: format_resources_markdown.                                    *)
(***************************************************************************)
TopHeading == "# AI Implementation Resources\n\n"

UseCaseHeading(use_case) == "## Use Case: " \o use_case \o "\n\n"

Placeholder == "No specific resources found for this use case.\n\n"

\* the test that sends a key to the placeholder; "Error" in None raises
IsPlaceholderEntry(resources) ==
  resources = <<>> \/ (Len(resources) = 1 /\ Contains(resources[1].title, "Error"))

PlaceholderTestRaises(resources) ==
  Len(resources) = 1 /\ resources[1].title = None

TypeErrorMessage == "argument of type 'NoneType' is not iterable"

\* the lines one resource contributes
FormatResource(resource) ==
  (IF resource.url # ""
     THEN "- **[" \o Str(resource.title) \o "](" \o resource.url \o ")** ("
            \o resource.source \o ")\n"
     ELSE "- **" \o Str(resource.title) \o "** (" \o resource.source \o ")\n")
  \o (IF "description" \in DOMAIN resource
        THEN "  - " \o Str(resource.description) \o "\n" ELSE "")
  \o (IF "downloads" \in DOMAIN resource
        THEN "  - Downloads: " \o ToString(resource.downloads) \o "\n" ELSE "")
  \o (IF "stars" \in DOMAIN resource
        THEN "  - Stars: " \o ToString(resource.stars) \o "\n" ELSE "")
  \o "\n"

RECURSIVE FormatResources(_, _)
FormatResources(resources, i) ==
  IF i > Len(resources) THEN ""
  ELSE FormatResource(resources[i]) \o FormatResources(resources, i + 1)

\* the entry rendered without its heading when it gets the placeholder
FormatEntry_NoHeadingOnPlaceholder(entry) ==
  IF IsPlaceholderEntry(entry.resources) THEN Placeholder
  ELSE UseCaseHeading(entry.key) \o FormatResources(entry.resources, 1)

\* what one key of the map contributes
FormatEntry(entry) ==
  UseCaseHeading(entry.key)
    \o (IF IsPlaceholderEntry(entry.resources) THEN Placeholder
        ELSE FormatResources(entry.resources, 1))

RECURSIVE FormatEntries(_, _)
FormatEntries(resource_map, i) ==
  IF i > Len(resource_map) THEN ""
  ELSE FormatEntry(resource_map[i]) \o FormatEntries(resource_map, i + 1)

\* whether format_resources_markdown raises on this map
FormatRaises(resource_map) ==
  \E i \in 1..Len(resource_map) : PlaceholderTestRaises(resource_map[i].resources)

format_resources_markdown(resource_map) == TopHeading \o FormatEntries(resource_map, 1)

(***************************************************************************)
(* agentai.py: resource_agent.                                             *)
(***************************************************************************)
\* the merge that stores the two secondary keys whatever the results
MergedResources_AlwaysSets(kaggle_resources, hf_resources, github_resources) ==
  DictSet(DictSet(kaggle_resources, "HuggingFace Datasets", hf_resources),
          "GitHub Repositories", github_resources)

\* the map after the two secondary results are merged in
MergedResources(kaggle_resources, hf_resources, github_resources) ==
  LET with_hf == IF hf_resources # <<>>
                   THEN DictSet(kaggle_resources, "HuggingFace Datasets", hf_resources)
                   ELSE kaggle_resources
  IN  IF github_resources # <<>>
        THEN DictSet(with_hf, "GitHub Repositories", github_resources)
        ELSE with_hf

\* what resource_agent returns for the merged map
resource_agent(merged) ==
  IF FormatRaises(merged) THEN "Resource error: " \o TypeErrorMessage
  ELSE format_resources_markdown(merged)

(***************************************************************************)
(* The inputs and the behaviours of the external services the model        *)
(* explores.                                                               *)
(***************************************************************************)
Companies == {"Retail Banking", "Tesla"}


\* base, cut or filled with "x" to exactly n characters
Pad(base, n) == IF Len(base) >= n THEN Slice(base, n) ELSE base \o Repeat("x", n - Len(base))

\* the lengths at and just above the cap c
Around(c) == {c + d : d \in 0..MaxOver}

ExampleUseCases == "- Fraud detection: detect anomalies\n- Chatbot support"

ResearchLengths ==
  {0} \cup Around(ProposalResearchCap) \cup Around(UseCaseResearchCap)
          \cup Around(ResearchCap)

\* the text of an exception that carries the service's whole error body
LongError == Pad("Error code: 413 - Request too large for model: ", ResearchCap)

ResearchResponses ==
  {Raised(""), Raised(LongError), Response(<<>>), Response(<<"", "Banks adopt AI.">>)}
    \cup {Response(<<Pad("Banking overview: ", n)>>) : n \in ResearchLengths}

UseCaseLengths == Around(ProposalUseCasesCap) \cup Around(UseCaseCap)

UseCaseResponses ==
  {Raised("Connection timed out"), Raised(LongError), Response(<<>>)}
    \cup {Response(<<"">>), Response(<<"", ExampleUseCases>>)}
    \cup {Response(<<Pad("- Fraud detection: detect anomalies ", n)>>) :
            n \in UseCaseLengths}

ProposalResponses ==
  {Raised("Connection timed out"), Response(<<>>), Response(<<"">>),
   Response(<<"Executive summary: start with fraud detection.">>)}

KaggleDataset(title) == [title |-> title, ref |-> "owner/data"]

KaggleEnv(credentials, list_raises, datasets) ==
  [credentials |-> credentials, list_raises |-> list_raises, datasets |-> datasets]

KaggleEnvs ==
  {KaggleEnv("absent", FALSE, <<>>), KaggleEnv("present", TRUE, <<>>)}
    \cup {KaggleEnv("present", FALSE, d) :
            d \in {<<>>,
                   <<KaggleDataset("Error Logs")>>,
                   <<KaggleDataset(None)>>,
                   <<KaggleDataset("Credit Card Fraud"), KaggleDataset("Churn"),
                     KaggleDataset("Loans")>>}}

HuggingFaceEnvs ==
  {[raises |-> TRUE, datasets |-> <<>>],
   [raises |-> FALSE, datasets |-> <<>>],
   [raises |-> FALSE,
    datasets |-> <<[id |-> "org/finance", description |-> "Financial news",
                    downloads |-> 120, likes |-> 3]>>]}

GitHubEnvs ==
  {[raises |-> TRUE, items |-> <<>>],
   [raises |-> FALSE, items |-> <<>>],
   [raises |-> FALSE,
    items |-> <<[name |-> "bank-ai", html_url |-> "https://github.com/o/bank-ai",
                 description |-> None, stargazers_count |-> 42,
                 language |-> "Python"],
                [name |-> "datasets", html_url |-> "",
                 description |-> "Open data", stargazers_count |-> 7,
                 language |-> "Python"],
                [name |-> "third", html_url |-> "https://github.com/o/third",
                 description |-> "More", stargazers_count |-> 1,
                 language |-> "Go"]>>]}

\* the lines the generated use-case texts are made of
Lines ==
  {"  ", "- Chatbot support", " * Forecasting", "1. Credit scoring", "3. Churn",
   "Goal: retention", "plain words"}

\* the texts of exactly n lines, joined by "\n"
RECURSIVE TextsOf(_)
TextsOf(n) ==
  IF n = 1 THEN Lines
  ELSE {t \o "\n" \o l : t \in TextsOf(n - 1), l \in Lines}

\* a text of three items, one more than resource_agent_kaggle looks up
ThreeUseCases == "1. Credit scoring\n- Chatbot support\nGoal: retention"

UseCaseTexts ==
  {"", ExampleUseCases, ThreeUseCases} \cup UNION {TextsOf(n) : n \in 1..MaxLines}

(***************************************************************************)
(* The state: the locals of orchestrate_agents, its position, what it      *)
(* returned, and a record of what the stages did.                          *)
(***************************************************************************)
VARIABLES
  pc,               \* the stage orchestrate_agents runs next, or "done"
  company,          \* company_or_industry
  research,         \* the four results, None until assigned
  use_cases,
  resources,
  proposal,
  result,           \* the dict orchestrate_agents returned, <<>> before
  calls,            \* the stages in the order they were run
  llm_log,          \* per completion call: stage, query sent, response
  truncated,        \* the truncated_* locals of stages 2 and 4
  use_case_list,    \* resource_agent_kaggle's extracted items
  kaggle_calls,     \* the search_kaggle_datasets calls of the run
  secondary_calls,  \* the HuggingFace and GitHub requests of the run
  hf_resources,
  github_resources,
  resource_map      \* the map handed to format_resources_markdown

vars == <<pc, company, research, use_cases, resources, proposal, result, calls,
          llm_log, truncated, use_case_list, kaggle_calls, secondary_calls,
          hf_resources, github_resources, resource_map>>

resourceVars == <<use_case_list, kaggle_calls, secondary_calls, hf_resources,
                  github_resources, resource_map>>

InitLocals ==
  /\ research = None
  /\ resources = None
  /\ proposal = None
  /\ result = <<>>
  /\ calls = <<>>
  /\ llm_log = <<>>
  /\ truncated = [uc_research |-> None, p_research |-> None,
                  p_use_cases |-> None, p_resources |-> None]
  /\ use_case_list = <<>>
  /\ kaggle_calls = <<>>
  /\ secondary_calls = <<>>
  /\ hf_resources = <<>>
  /\ github_resources = <<>>
  /\ resource_map = <<>>

\* orchestrate_agents(company) is entered
Init ==
  /\ pc = "research"
  /\ company \in Companies
  /\ use_cases = None
  /\ InitLocals

\* resource_agent(use_cases, company) is entered on its own
InitResource ==
  /\ pc = "resource"
  /\ company = "Retail Banking"
  /\ use_cases \in UseCaseTexts
  /\ InitLocals

Research ==
  /\ pc = "research"
  /\ \E response \in ResearchResponses :
       /\ research' = research_agent(company, response)
       /\ llm_log' = Append(llm_log, [stage |-> "research",
                                      query |-> ResearchQuery(company),
                                      response |-> response])
  /\ calls' = Append(calls, "research")
  /\ pc' = "use_case"
  /\ UNCHANGED <<company, use_cases, resources, proposal, result, truncated>>
  /\ UNCHANGED resourceVars

\* the use-case stage handing over to the proposal stage directly
UseCase_SkipsResource ==
  /\ pc = "use_case"
  /\ \E response \in UseCaseResponses :
       /\ use_cases' = use_case_agent(research, response)
       /\ llm_log' = Append(llm_log, [stage |-> "use_case",
                                      query |-> UseCaseQuery(research),
                                      response |-> response])
  /\ truncated' = [truncated EXCEPT !.uc_research = UseCaseTruncatedResearch(research)]
  /\ calls' = Append(calls, "use_case")
  /\ pc' = "proposal"
  /\ resources' = ""
  /\ UNCHANGED <<company, research, proposal, result>>
  /\ UNCHANGED resourceVars

UseCase ==
  /\ pc = "use_case"
  /\ \E response \in UseCaseResponses :
       /\ use_cases' = use_case_agent(research, response)
       /\ llm_log' = Append(llm_log, [stage |-> "use_case",
                                      query |-> UseCaseQuery(research),
                                      response |-> response])
  /\ truncated' = [truncated EXCEPT !.uc_research = UseCaseTruncatedResearch(research)]
  /\ calls' = Append(calls, "use_case")
  /\ pc' = "resource"
  /\ UNCHANGED <<company, research, resources, proposal, result>>
  /\ UNCHANGED resourceVars

Resource ==
  /\ pc = "resource"
  /\ LET extracted == ExtractUseCases(use_cases, company)
     IN  \E kenvs \in [1..Len(LookedUp(extracted)) -> KaggleEnvs],
            henv \in HuggingFaceEnvs,
            genv \in GitHubEnvs :
           /\ use_case_list' = extracted
           /\ kaggle_calls' = KaggleCalls(extracted, company, DefaultMaxResults, kenvs)
           /\ secondary_calls' =
                << [catalog |-> "HuggingFace", query |-> company,
                    url |-> HuggingFaceUrl(company, SecondaryMaxResults),
                    failed |-> henv.raises],
                   [catalog |-> "GitHub", query |-> company,
                    url |-> GitHubUrl(company),
                    failed |-> genv.raises] >>
           /\ hf_resources' = search_huggingface_datasets(company, SecondaryMaxResults, henv)
           /\ github_resources' = search_github_repos(company, SecondaryMaxResults, genv)
           /\ resource_map' =
                MergedResources(
                  LookupCases(extracted, company, DefaultMaxResults, kenvs),
                  hf_resources', github_resources')
           /\ resources' = resource_agent(resource_map')
  /\ calls' = Append(calls, "resource")
  /\ pc' = "proposal"
  /\ UNCHANGED <<company, research, use_cases, proposal, result, llm_log, truncated>>

\* the proposal stage and the return of the four-field dict
Proposal ==
  /\ pc = "proposal"
  /\ \E response \in ProposalResponses :
       /\ proposal' = proposal_agent(research, use_cases, resources, response)
       /\ llm_log' = Append(llm_log, [stage |-> "proposal",
                                      query |-> ProposalQuery(research, use_cases, resources),
                                      response |-> response])
  /\ truncated' = [truncated EXCEPT !.p_research = ProposalTruncatedResearch(research),
                                    !.p_use_cases = ProposalTruncatedUseCases(use_cases),
                                    !.p_resources = ProposalTruncatedResources(resources)]
  /\ calls' = Append(calls, "proposal")
  /\ result' = [research |-> research, use_cases |-> use_cases,
                resources |-> resources, proposal |-> proposal']
  /\ pc' = "done"
  /\ UNCHANGED <<company, research, use_cases, resources>>
  /\ UNCHANGED resourceVars

Next == Research \/ UseCase \/ Resource \/ Proposal

Spec == Init /\ [][Next]_vars

NextResource == Resource

SpecResource == InitResource /\ [][NextResource]_vars

(***************************************************************************)
(* Vocabulary of the properties.                                           *)
(***************************************************************************)
Stages == <<"research", "use_case", "resource", "proposal">>

Fields == {"research", "use_cases", "resources", "proposal"}

Ran(stage) == \E i \in 1..Len(calls) : calls[i] = stage

\* the entry of llm_log of a completion stage that ran
LogOf(stage) == llm_log[CHOOSE i \in 1..Len(llm_log) : llm_log[i].stage = stage]

\* the raw completion text of a stage, when the stage got one
HasRaw(stage) ==
  /\ Ran(stage)
  /\ ~LogOf(stage).response.raised
  /\ LogOf(stage).response.ai_messages # <<>>

Raw(stage) == Last(LogOf(stage).response.ai_messages)

\* value is raw cut to cap characters as the truncation rule prescribes
TruncationRule(raw, value, cap) ==
  IF Len(raw) > cap
    THEN /\ Len(value) = cap + 3
         /\ SubSeq(value, 1, cap) = SubSeq(raw, 1, cap)
         /\ SubSeq(value, cap + 1, cap + 3) = "..."
  ELSE value = raw

(***************************************************************************)
(* C1.  Whatever the external services do, the dict orchestrate_agents     *)
(* returns has its four fields research, use_cases, resources and proposal *)
(* non-null and non-empty.                                                 *)
(***************************************************************************)
C1_AllFieldsNonEmpty ==
  pc = "done" =>
    /\ DOMAIN result = Fields
    /\ \A f \in Fields : result[f] # None /\ result[f] # ""

(***************************************************************************)
(* C2.  Truncation rule: the research output (cap 500), the use-case       *)
(* output (cap 400), the research handed to the use-case stage (cap 300)   *)
(* and the research, use cases and resources handed to the proposal stage  *)
(* (caps 200, 200, 100) are the raw text unmodified when it is no longer   *)
(* than the cap, and its first cap characters followed by "..." otherwise. *)
(***************************************************************************)
C2_Truncation ==
  /\ HasRaw("research") => TruncationRule(Raw("research"), research, 500)
  /\ HasRaw("use_case") => TruncationRule(Raw("use_case"), use_cases, 400)
  /\ Ran("use_case") =>
       /\ TruncationRule(research, truncated.uc_research, 300)
       /\ LogOf("use_case").query =
            "Based on: " \o truncated.uc_research \o "\n\nSuggest 2 AI use cases"
  /\ Ran("proposal") =>
       /\ TruncationRule(research, truncated.p_research, 200)
       /\ TruncationRule(use_cases, truncated.p_use_cases, 200)
       /\ TruncationRule(resources, truncated.p_resources, 100)
       /\ LogOf("proposal").query =
            "Research: " \o truncated.p_research
              \o "\nUse Cases: " \o truncated.p_use_cases
              \o "\nResources: " \o truncated.p_resources
              \o "\n\nCreate brief proposal"

\* a finished run in which the research and use-case outputs and all three
\* proposal inputs were cut, the research input of stage 2 included
C2_Witness ==
  /\ pc = "done"
  /\ HasRaw("research") /\ Len(Raw("research")) > 500
  /\ HasRaw("use_case") /\ Len(Raw("use_case")) > 400
  /\ Len(research) = 503 /\ Len(use_cases) = 403 /\ Len(resources) > 100
  /\ Len(truncated.uc_research) = 303
  /\ Len(truncated.p_research) = 203
  /\ Len(truncated.p_use_cases) = 203
  /\ Len(truncated.p_resources) = 103

(***************************************************************************)
(* C6 as stated.  The four stages run once each in the fixed order, the    *)
(* run ends with the complete four-field result, and every stage whose     *)
(* internals failed (the completion call of stages 1, 2 and 4, a catalog   *)
(* search of stage 3) returned a string starting with its own prefix.      *)
(***************************************************************************)
Prefix(stage) ==
  CASE stage = "research" -> "Research error: "
    [] stage = "use_case" -> "Use case error: "
    [] stage = "resource" -> "Resource error: "
    [] stage = "proposal" -> "Proposal error: "

FieldOf(stage) ==
  CASE stage = "research" -> research
    [] stage = "use_case" -> use_cases
    [] stage = "resource" -> resources
    [] stage = "proposal" -> proposal

CatalogFailed ==
  \/ \E i \in 1..Len(kaggle_calls) : kaggle_calls[i].failed
  \/ \E i \in 1..Len(secondary_calls) : secondary_calls[i].failed

InternalsFailed(stage) ==
  IF stage = "resource" THEN CatalogFailed ELSE LogOf(stage).response.raised

InFixedOrder ==
  /\ Len(calls) <= 4
  /\ calls = SubSeq(Stages, 1, Len(calls))
  /\ pc = IF Len(calls) = 4 THEN "done" ELSE Stages[Len(calls) + 1]

CompleteResult ==
  pc = "done" =>
    /\ DOMAIN result = Fields
    /\ result.research = research /\ result.use_cases = use_cases
    /\ result.resources = resources /\ result.proposal = proposal
    /\ \A f \in Fields : result[f] # None

C6_EveryFailureGivesPrefix ==
  /\ InFixedOrder
  /\ CompleteResult
  /\ \A i \in 1..Len(calls) :
       InternalsFailed(calls[i]) => StartsWith(FieldOf(calls[i]), Prefix(calls[i]))

(***************************************************************************)
(* C6 as amended.  The four stages run once each in the fixed order and    *)
(* the run always ends with the complete four-field result.  A completion  *)
(* stage (1, 2, 4) whose call raises returns its own prefix followed by    *)
(* the error text.  The resource stage absorbs catalog failures below its  *)
(* boundary and still returns the formatted listing; it returns            *)
(* "Resource error: ..." only when the formatter itself raises.  Every     *)
(* later stage runs on the text the earlier ones returned.                 *)
(***************************************************************************)
C6_StagesInOrder ==
  /\ InFixedOrder
  /\ CompleteResult
  /\ \A i \in 1..Len(calls) :
       IF calls[i] = "resource"
         THEN IF \E k \in 1..Len(resource_map) :
                   /\ Len(resource_map[k].resources) = 1
                   /\ resource_map[k].resources[1].title = None
                THEN resources = "Resource error: argument of type 'NoneType' is not iterable"
              ELSE StartsWith(resources, "# AI Implementation Resources\n")
       ELSE LogOf(calls[i]).response.raised =>
              FieldOf(calls[i]) = Prefix(calls[i]) \o LogOf(calls[i]).response.err
  /\ Ran("use_case") =>
       StartsWith(LogOf("use_case").query, "Based on: " \o Slice(research, 300))
  /\ (Ran("resource") /\ LogOf("use_case").response.raised) =>
       /\ use_case_list = <<use_cases>>
       /\ kaggle_calls[1].query = use_cases \o " " \o company
  /\ Ran("proposal") =>
       LET q == LogOf("proposal").query
       IN  /\ StartsWith(q, "Research: " \o Slice(research, 200))
           /\ Contains(q, "\nUse Cases: " \o Slice(use_cases, 200))
           /\ Contains(q, "\nResources: " \o Slice(resources, 100))

\* a finished run in which every stage failed: the three completion calls
\* raised, both Kaggle paths and both secondary catalogs failed
C6_Witness ==
  /\ pc = "done"
  /\ LogOf("research").response.raised
  /\ LogOf("use_case").response.raised
  /\ LogOf("proposal").response.raised
  /\ CatalogFailed
  /\ StartsWith(resources, "# AI Implementation Resources\n")
  /\ result.proposal = "Proposal error: Connection timed out"

(***************************************************************************)
(* Use-case texts as the claims describe them.                             *)
(***************************************************************************)
IsBlankLine(l) == \A i \in 1..Len(l) : SubSeq(l, i, i) \in {" ", "\t", "\r", "\f"}

\* the empty string, or nothing but whitespace and blank lines
IsBlankText(lines) == \A i \in 1..Len(lines) : IsBlankLine(lines[i])

Digits == {"0", "1", "2", "3", "4", "5", "6", "7", "8", "9"}

\* l begins with a number followed by a dot
HasNumberMarker(l) ==
  \E k \in 1..(Len(l) - 1) :
    /\ \A j \in 1..k : SubSeq(l, j, j) \in Digits
    /\ SubSeq(l, k + 1, k + 1) = "."

HasBulletMarker(l) == Len(l) > 0 /\ SubSeq(l, 1, 1) \in {"-", "*"}

HasColon(l) == \E i \in 1..Len(l) : SubSeq(l, i, i) = ":"

\* no line of the text, trimmed, carries a bullet, a number marker or a colon
NoMarkers(lines) ==
  \A i \in 1..Len(lines) :
    LET l == Strip(lines[i])
    IN  ~HasBulletMarker(l) /\ ~HasNumberMarker(l) /\ ~HasColon(l)

\* the non-blank lines from line i on, trimmed and joined by single spaces
RECURSIVE JoinedFrom(_, _)
JoinedFrom(lines, i) ==
  IF i > Len(lines) THEN ""
  ELSE LET l == Strip(lines[i])
           rest == JoinedFrom(lines, i + 1)
       IN  IF l = "" THEN rest
           ELSE IF rest = "" THEN l
           ELSE l \o " " \o rest

NonBlankLines(lines) == {i \in 1..Len(lines) : ~IsBlankLine(lines[i])}

(***************************************************************************)
(* C3 as stated.  The extraction yields exactly the one fallback item      *)
(* "AI applications in <subject>" for the empty string, for text of        *)
(* whitespace and blank lines only, and for non-blank text without bullet, *)
(* number marker or colon.                                                 *)
(***************************************************************************)
C3_NoMarkersGiveFallback ==
  Ran("resource") =>
    LET lines == Split(use_cases)
    IN  (IsBlankText(lines) \/ NoMarkers(lines)) =>
          use_case_list = <<"AI applications in " \o company>>

(***************************************************************************)
(* C3 as amended.  The extraction always yields a non-empty list of        *)
(* non-empty items.  For the empty string and for text of whitespace and   *)
(* blank lines only it yields exactly the fallback item "AI applications   *)
(* in <subject>".  For non-blank text without bullet, number marker or     *)
(* colon it yields exactly one item too, but that item is the text's       *)
(* non-blank lines, trimmed and joined by single spaces, not the fallback. *)
(***************************************************************************)
C3_ExtractionFallback ==
  Ran("resource") =>
    LET lines == Split(use_cases)
        blank == IsBlankText(lines)
    IN  /\ use_case_list # <<>>
        /\ \A i \in 1..Len(use_case_list) : use_case_list[i] # ""
        /\ blank => use_case_list = <<"AI applications in " \o company>>
        /\ (~blank /\ NoMarkers(lines)) => use_case_list = <<JoinedFrom(lines, 1)>>

\* extraction ran on a text of two non-blank lines without any marker and
\* produced the joined text, which is not the fallback item
C3_Witness ==
  /\ Ran("resource")
  /\ Len(use_case_list) = 1
  /\ use_case_list[1] # "AI applications in " \o company
  /\ LET lines == Split(use_cases)
     IN  NoMarkers(lines) /\ Cardinality(NonBlankLines(lines)) >= 2

(***************************************************************************)
(* The Kaggle lookups of a run and the map entries they end up in.         *)
(***************************************************************************)
SecondaryKeys == {"HuggingFace Datasets", "GitHub Repositories"}

\* call i is the one whose result the map keeps under its case
Decides(i) ==
  /\ kaggle_calls[i].case \notin SecondaryKeys
  /\ \A j \in (i + 1)..Len(kaggle_calls) : kaggle_calls[j].case # kaggle_calls[i].case

EntryOf(i) == Get(resource_map, kaggle_calls[i].case)

IsNoDatasetSentinel(resources_list) ==
  /\ Len(resources_list) = 1
  /\ resources_list[1].title = "No specific dataset found"
  /\ resources_list[1].url = "https://www.kaggle.com/datasets"

(***************************************************************************)
(* C4 as stated.  When the Kaggle query for a use-case item fails (the API *)
(* cannot be set up, or the call raises), the map entry of that item is a  *)
(* one-element list whose record carries an error/no-result marker in its  *)
(* title.                                                                  *)
(***************************************************************************)
C4_FailedQueryGivesSentinel ==
  Ran("resource") =>
    \A i \in 1..Len(kaggle_calls) :
      (kaggle_calls[i].failed /\ Decides(i)) =>
        /\ Len(EntryOf(i)) = 1
        /\ \/ Contains(EntryOf(i)[1].title, "Error")
           \/ Contains(EntryOf(i)[1].title, "No specific dataset found")

(***************************************************************************)
(* C4 as amended.  When the Kaggle query for a use-case item fails, the    *)
(* map entry of that item is the list of the two synthetic fallback        *)
(* records, titled "<query> Dataset 1" and "<query> Dataset 2" and tagged  *)
(* "Kaggle (Fallback)"; the single "No specific dataset found" record is   *)
(* the entry exactly when the query succeeds with zero results.            *)
(***************************************************************************)
C4_FailedQueryGivesFallbackRecords ==
  Ran("resource") =>
    \A i \in 1..Len(kaggle_calls) :
      Decides(i) =>
        /\ kaggle_calls[i].failed =>
             /\ Len(EntryOf(i)) = 2
             /\ \A j \in 1..2 :
                  /\ EntryOf(i)[j].source = "Kaggle (Fallback)"
                  /\ EntryOf(i)[j].title =
                       kaggle_calls[i].query \o " Dataset " \o ToString(j)
                  /\ EntryOf(i)[j].url =
                       "https://www.kaggle.com/datasets/example" \o ToString(j)
        /\ IsNoDatasetSentinel(EntryOf(i)) <=>
             (~kaggle_calls[i].failed /\ kaggle_calls[i].result = <<>>)

\* one lookup failed because the call raised and another returned nothing
C4_Witness ==
  /\ Ran("resource")
  /\ \E i, j \in 1..Len(kaggle_calls) :
       /\ Decides(i) /\ Decides(j)
       /\ kaggle_calls[i].failed /\ kaggle_calls[i].credentials = "present"
       /\ ~kaggle_calls[j].failed /\ kaggle_calls[j].result = <<>>

(***************************************************************************)
(* The formatted listing read back line by line.                           *)
(***************************************************************************)
\* format_resources_markdown returned (resource_agent did not catch a raise)
Formatted == Ran("resource") /\ ~StartsWith(resources, "Resource error: ")

IsHeadingLine(l) == StartsWith(l, "## Use Case: ")

IsBulletLine(l) == StartsWith(l, "- **")

IsPlaceholderLine(l) == l = "No specific resources found for this use case."

\* the line numbers of the sub-headings among lines, ascending
HeadingIndexes(lines) ==
  SelectSeq([i \in 1..Len(lines) |-> i], LAMBDA i : IsHeadingLine(lines[i]))

\* the lines between the k-th sub-heading and the next one
Section(lines, heads, k) ==
  SubSeq(lines, heads[k] + 1,
         IF k < Len(heads) THEN heads[k + 1] - 1 ELSE Len(lines))

Bullets(section) == SelectSeq(section, IsBulletLine)

NonEmptyLines(section) == SelectSeq(section, LAMBDA l : l # "")

\* the list holds nothing but one of the two sentinel records
IsSentinelOnly(resources_list) ==
  /\ Len(resources_list) = 1
  /\ \/ resources_list[1].title = "No specific dataset found"
     \/ StartsWith(resources_list[1].title, "Kaggle API Error: ")

(***************************************************************************)
(* C5.  In the formatted listing every key whose list is solely a sentinel *)
(* record ("No specific dataset found" or "Kaggle API Error: ...") is its  *)
(* heading followed by the one-line placeholder and no bullets, and every  *)
(* key with real results has one bullet per record.                        *)
(***************************************************************************)
C5_SentinelGetsPlaceholder ==
  Formatted =>
    LET lines == Split(resources)
        heads == HeadingIndexes(lines)
    IN  /\ Len(heads) = Len(resource_map)
        /\ \A k \in 1..Len(resource_map) :
             LET section == Section(lines, heads, k)
             IN  IF IsSentinelOnly(resource_map[k].resources)
                   THEN NonEmptyLines(section) =
                          <<"No specific resources found for this use case.">>
                 ELSE /\ Len(Bullets(section)) = Len(resource_map[k].resources)
                      /\ \A j \in 1..Len(section) : ~IsPlaceholderLine(section[j])

(***************************************************************************)
(* C7.  The map the resource stage builds has between 1 and 4 distinct     *)
(* keys, whatever the use-case text and whatever the three catalogs do;    *)
(* no key holds an empty list, and a secondary catalog that returned       *)
(* nothing (zero results or a failure) adds no key.                        *)
(***************************************************************************)
C7_ResourceMapKeys ==
  Ran("resource") =>
    /\ Len(resource_map) >= 1
    /\ Len(resource_map) <= 4
    /\ \A i, j \in 1..Len(resource_map) :
         resource_map[i].key = resource_map[j].key => i = j
    /\ \A i \in 1..Len(resource_map) : resource_map[i].resources # <<>>
    /\ \A i \in 1..Len(resource_map) :
         \/ \E c \in 1..Len(kaggle_calls) : kaggle_calls[c].case = resource_map[i].key
         \/ resource_map[i].key = "HuggingFace Datasets" /\ hf_resources # <<>>
         \/ resource_map[i].key = "GitHub Repositories" /\ github_resources # <<>>
    /\ hf_resources # <<>> =>
         \E i \in 1..Len(resource_map) :
           /\ resource_map[i].key = "HuggingFace Datasets"
           /\ resource_map[i].resources = hf_resources
    /\ github_resources # <<>> =>
         \E i \in 1..Len(resource_map) :
           /\ resource_map[i].key = "GitHub Repositories"
           /\ resource_map[i].resources = github_resources

\* two items were looked up, HuggingFace answered with zero results and
\* GitHub with some: three keys, none for HuggingFace
C7_Witness ==
  /\ Ran("resource")
  /\ Len(kaggle_calls) = 2
  /\ ~secondary_calls[1].failed /\ hf_resources = <<>>
  /\ github_resources # <<>>
  /\ Len(resource_map) = 3

(***************************************************************************)
(* C8.  The formatted listing starts with the top-level heading            *)
(* "# AI Implementation Resources"; its sub-headings are exactly the lines *)
(* "## Use Case: <key>", one per key of the map, in the map's insertion    *)
(* order; and the bullets stand under the heading of their own key, none   *)
(* before the first sub-heading.                                           *)
(***************************************************************************)
C8_HeadingsInOrder ==
  Formatted =>
    LET lines == Split(resources)
        heads == HeadingIndexes(lines)
    IN  /\ lines[1] = "# AI Implementation Resources"
        /\ [k \in 1..Len(heads) |-> lines[heads[k]]] =
             [k \in 1..Len(resource_map) |-> "## Use Case: " \o resource_map[k].key]
        /\ \A i \in 1..(heads[1] - 1) : ~IsBulletLine(lines[i])
        /\ \A k \in 1..Len(resource_map) :
             LET bullets == Bullets(Section(lines, heads, k))
                 records == resource_map[k].resources
             IN  \/ bullets = <<>>
                 \/ /\ Len(bullets) = Len(records)
                    /\ \A j \in 1..Len(bullets) :
                         /\ Contains(bullets[j], Str(records[j].title))
                         /\ Contains(bullets[j], "(" \o records[j].source \o ")")

\* a listing of four keys, each with bullets under its heading
C8_Witness ==
  /\ Formatted
  /\ Len(resource_map) = 4
  /\ LET lines == Split(resources)
         heads == HeadingIndexes(lines)
     IN  \A k \in 1..4 : Bullets(Section(lines, heads, k)) # <<>>

(***************************************************************************)
(* C9.  One run of the resource stage calls the Kaggle search              *)
(* min(2, number of extracted items) times, for the first items in         *)
(* extraction order, each with the query "<item> <subject>", and sends     *)
(* exactly one request, for the subject alone, to HuggingFace and one to   *)
(* GitHub.  The two-line text "- Fraud detection: detect anomalies" /      *)
(* "- Chatbot support" gives exactly those two items, two Kaggle queries   *)
(* and two secondary queries.                                              *)
(***************************************************************************)
C9_QueryCounts ==
  Ran("resource") =>
    /\ Len(kaggle_calls) = IF Len(use_case_list) < 2 THEN Len(use_case_list) ELSE 2
    /\ \A i \in 1..Len(kaggle_calls) :
         kaggle_calls[i].query = use_case_list[i] \o " " \o company
    /\ Len(secondary_calls) = 2
    /\ secondary_calls[1].catalog = "HuggingFace" /\ secondary_calls[1].query = company
    /\ secondary_calls[2].catalog = "GitHub" /\ secondary_calls[2].query = company
    /\ use_cases = "- Fraud detection: detect anomalies\n- Chatbot support" =>
         /\ use_case_list = <<"- Fraud detection: detect anomalies", "- Chatbot support">>
         /\ Len(kaggle_calls) = 2

\* three items were extracted and only the first two were looked up
C9_Witness ==
  /\ Ran("resource")
  /\ Len(use_case_list) = 3
  /\ Len(kaggle_calls) = 2
  /\ kaggle_calls[2].query = use_case_list[2] \o " " \o company

(***************************************************************************)
(* C10.  With the Kaggle credentials absent, search_kaggle_datasets called *)
(* with the default limit returns exactly 2 records, both tagged           *)
(* "Kaggle (Fallback)", whatever the query.                                *)
(***************************************************************************)
C10_AbsentCredentialsGiveTwoFallbacks ==
  \A i \in 1..Len(kaggle_calls) :
    (kaggle_calls[i].credentials = "absent" /\ kaggle_calls[i].max_results = 2) =>
      /\ Len(kaggle_calls[i].result) = 2
      /\ \A j \in 1..Len(kaggle_calls[i].result) :
           kaggle_calls[i].result[j].source = "Kaggle (Fallback)"

\* two searches ran without credentials, for two different queries
C10_Witness ==
  /\ Len(kaggle_calls) = 2
  /\ kaggle_calls[1].credentials = "absent" /\ kaggle_calls[2].credentials = "absent"
  /\ kaggle_calls[1].query # kaggle_calls[2].query
  /\ Len(kaggle_calls[1].result) = 2

(***************************************************************************)
(* The item-start rule as the claims describe it: a trimmed line starts a  *)
(* new item when it begins with a bullet, begins with a number followed by *)
(* a dot, or contains a colon.                                             *)
(***************************************************************************)
StartsItemByRule(l) ==
  l # "" /\ (HasBulletMarker(l) \/ HasNumberMarker(l) \/ HasColon(l))

\* the items that rule gives for the lines from line i on, the last one
\* flushed at the end of the input
RECURSIVE ItemsByRule(_, _, _, _)
ItemsByRule(lines, i, items, current) ==
  IF i > Len(lines)
    THEN IF current # "" THEN Append(items, Strip(current)) ELSE items
  ELSE LET l == Strip(lines[i])
       IN  IF StartsItemByRule(l)
             THEN ItemsByRule(lines, i + 1,
                              IF current # "" THEN Append(items, Strip(current))
                              ELSE items,
                              l)
           ELSE IF l # ""
             THEN ItemsByRule(lines, i + 1, items, current \o " " \o l)
           ELSE ItemsByRule(lines, i + 1, items, current)

(***************************************************************************)
(* C11.  Item-start rule of the use-case extraction: going through the     *)
(* lines in order, a new item starts exactly when the trimmed line begins  *)
(* with "-" or "*", begins with a numbered-list marker of any number       *)
(* ("1.", "2.", "3.", ...), or contains a colon; every other non-blank     *)
(* line is appended to the current item after one space; the last item is  *)
(* flushed at the end of the input, so the items come out in input order.  *)
(***************************************************************************)
C11_ItemStartRule ==
  Ran("resource") =>
    LET lines == Split(use_cases)
    IN  ~IsBlankText(lines) => use_case_list = ItemsByRule(lines, 1, <<>>, "")

\* extraction ran on a text with a line numbered 3 or higher
NumberedBeyondTwo ==
  /\ Ran("resource")
  /\ LET lines == Split(use_cases)
     IN  \E i \in 1..Len(lines) :
           LET l == Strip(lines[i])
           IN  HasNumberMarker(l) /\ ~StartsWith(l, "1.") /\ ~StartsWith(l, "2.")


(***************************************************************************)
(* C12.  Length invariant of the pipeline state: once stage 1 has set it,  *)
(* the research field is at most 500 + 3 characters long, and once stage 2 *)
(* has set it the use_cases field is at most 400 + 3 characters long, on   *)
(* every path by which the stage produces the field, the path where the    *)
(* stage fails and stores its diagnostic string included.                  *)
(***************************************************************************)
C12_LengthInvariant ==
  /\ Ran("research") => Len(research) <= 500 + 3
  /\ Ran("use_case") => Len(use_cases) <= 400 + 3

\* the same bounds on the paths where the completion call returned
LengthBoundWhenReturned ==
  /\ (Ran("research") /\ ~LogOf("research").response.raised) =>
       Len(research) <= 500 + 3
  /\ (Ran("use_case") /\ ~LogOf("use_case").response.raised) =>
       Len(use_cases) <= 400 + 3

\* the formatter raised and resource_agent turned that into its diagnostic
ResourceErrorReached ==
  /\ Ran("resource")
  /\ resources = "Resource error: argument of type 'NoneType' is not iterable"

====
